---- MODULE Spec2Model ----
(***************************************************************************)
(* Model of balloon_cd.py (ssokolow/rip_media): the driver main, the       *)
(* per-input processor process, parchive, generate_iso and escape_graft.   *)
(*                                                                         *)
(* Strings are sequences of one-character strings, so that basename,       *)
(* join, endswith, slicing and escape_graft are computed character by      *)
(* character as the Python code computes them.                             *)
(*                                                                         *)
(* External programs are opaque: each invocation returns 0 or a non-zero   *)
(* code, chosen nondeterministically; an invocation that returns 0 has     *)
(* produced its output file (par2: the index file <src_path>.par2; its     *)
(* volume files end in .par2 as well).  What a failed invocation leaves    *)
(* behind is not tracked: the run removes the staging directory next.      *)
(* Only the top-level entries of the staging directory are tracked, each   *)
(* as a plain file or a directory.                                         *)
(***************************************************************************)
EXTENDS Integers, Sequences, FiniteSets, TLC

VARIABLES
    inpath,       \* args.inpath: the input paths, in command-line order
    no_par2,      \* args.no_par2
    volid,        \* args.volid (<<>> when not supplied)
    pc,           \* position of main (and of process / generate_iso inside it)
    i,            \* index of the input of the loop at line 225
    k,            \* index of the table entry of the current loop of process
    staging,      \* top-level entries of temp_dir: name -> "file" | "dir"
    temp_exists,  \* whether temp_dir exists on disk
    cmdLog,       \* the external commands invoked so far, with their exit codes
    processed,    \* the paths process was called with, in call order
    parList,      \* sorted(os.listdir(temp_dir)), evaluated at line 232
    j,            \* index into parList
    volume_id,    \* the volume id passed to generate_iso
    listing,      \* os.listdir(src_dir) as generate_iso read it
    grafts,       \* result of the graft loop; grafts.grafts is passed to genisoimage
    failed,       \* "none", or the kind of the exception that ended the run
    g_dir,        \* generate_iso in isolation: src_dir
    g_listing,    \* generate_iso in isolation: os.listdir(src_dir)
    g_out,        \* generate_iso in isolation: result of the graft loop
    g_pc          \* generate_iso in isolation: position

vars == <<inpath, no_par2, volid, pc, i, k, staging, temp_exists, cmdLog,
          processed, parList, j, volume_id, listing, grafts, failed,
          g_dir, g_listing, g_out, g_pc>>

mainVars == <<inpath, no_par2, volid, pc, i, k, staging, temp_exists, cmdLog,
              processed, parList, j, volume_id, listing, grafts, failed>>

graftVars == <<g_dir, g_listing, g_out, g_pc>>

(***************************************************************************)
(* Bounds of the model.                                                    *)
(***************************************************************************)
MaxInputs == 2        \* longest command line explored
LongLen == 33         \* length of the long base name / long --volid
MaxNameLen == 2       \* longest directory-entry name given to generate_iso alone
MaxListing == 2       \* most directory entries given to generate_iso alone

(***************************************************************************)
(* Program constants.                                                      *)
(***************************************************************************)
VolIdLen == 32

ARCHIVERS ==
    << [ext |-> <<".", "z", "i", "p">>, cmd |-> "zip"],
       [ext |-> <<".", "t", "a", "r">>, cmd |-> "tar"],
       [ext |-> <<".", "7", "z">>,      cmd |-> "7z"],
       [ext |-> <<".", "r", "a", "r">>, cmd |-> "rar"],
       [ext |-> <<".", "l", "z", "h">>, cmd |-> "jlha"],
       [ext |-> <<".", "a", "r", "j">>, cmd |-> "arj"],
       [ext |-> <<".", "z", "o", "o">>, cmd |-> "zoo"] >>

COMPRESSORS ==
    << [ext |-> <<".", "g", "z">>,           cmd |-> "gzip"],
       [ext |-> <<".", "b", "z", "2">>,      cmd |-> "bzip2"],
       [ext |-> <<".", "l", "z">>,           cmd |-> "lzip"],
       [ext |-> <<".", "l", "z", "m", "a">>, cmd |-> "lzma"],
       [ext |-> <<".", "x", "z">>,           cmd |-> "xz"] >>

EXTENSION_COMPRESSION ==
    << [from |-> <<".", "t", "a", "r", ".", "b", "z", "2">>, to |-> <<".", "t", "b", "z", "2">>],
       [from |-> <<".", "t", "a", "r", ".", "g", "z">>,      to |-> <<".", "t", "g", "z">>],
       [from |-> <<".", "t", "a", "r", ".", "l", "z">>,      to |-> <<".", "t", "l", "z">>],
       [from |-> <<".", "t", "a", "r", ".", "x", "z">>,      to |-> <<".", "t", "x", "z">>] >>

TarExt == <<".", "t", "a", "r">>
Par2Ext == <<".", "p", "a", "r", "2">>

(***************************************************************************)
(* String helpers: os.path.basename, os.path.join, str.endswith, sorted.   *)
(***************************************************************************)
RECURSIVE Rep(_, _)
Rep(c, n) == IF n = 0 THEN <<>> ELSE <<c>> \o Rep(c, n - 1)

RECURSIVE LastSlash(_, _)
LastSlash(p, n) ==
    IF n = 0 THEN 0
    ELSE IF p[n] = "/" THEN n ELSE LastSlash(p, n - 1)

basename(p) == SubSeq(p, LastSlash(p, Len(p)) + 1, Len(p))

join(a, b) ==
    IF b # <<>> /\ b[1] = "/" THEN b
    ELSE IF a = <<>> \/ a[Len(a)] = "/" THEN a \o b
    ELSE a \o <<"/">> \o b

endswith(s, suffix) ==
    /\ Len(s) >= Len(suffix)
    /\ SubSeq(s, Len(s) - Len(suffix) + 1, Len(s)) = suffix

Slice(s, n) == SubSeq(s, 1, IF Len(s) < n THEN Len(s) ELSE n)

CodePoint ==
    [c \in {".", "/", "2", "7", "=", "\\", "a", "b", "d", "g", "h", "i", "j",
            "l", "m", "n", "o", "p", "r", "t", "v", "x", "z"} |->
        CASE c = "." -> 46 [] c = "/" -> 47 [] c = "2" -> 50 [] c = "7" -> 55
          [] c = "=" -> 61 [] c = "\\" -> 92 [] c = "a" -> 97 [] c = "b" -> 98
          [] c = "d" -> 100 [] c = "g" -> 103 [] c = "h" -> 104 [] c = "i" -> 105
          [] c = "j" -> 106 [] c = "l" -> 108 [] c = "m" -> 109 [] c = "n" -> 110
          [] c = "o" -> 111 [] c = "p" -> 112 [] c = "r" -> 114 [] c = "t" -> 116
          [] c = "v" -> 118 [] c = "x" -> 120 [] c = "z" -> 122]

LexLess(a, b) ==
    \E n \in 1..Len(b) :
        /\ n - 1 <= Len(a)
        /\ \A m \in 1..(n - 1) : a[m] = b[m]
        /\ (Len(a) = n - 1 \/ CodePoint[a[n]] < CodePoint[b[n]])

\* sorted: the names in ascending order (Python compares strings code point
\* by code point), by insertion.
RECURSIVE Insert(_, _)
Insert(x, s) ==
    IF s = <<>> THEN <<x>>
    ELSE IF LexLess(x, s[1]) THEN <<x>> \o s
    ELSE <<s[1]>> \o Insert(x, Tail(s))

RECURSIVE sorted(_)
sorted(S) ==
    IF S = {} THEN <<>>
    ELSE LET x == CHOOSE y \in S : TRUE
         IN  Insert(x, sorted(S \ {x}))

listdir(fs) == DOMAIN fs

InSeq(x, s) == \E n \in 1..Len(s) : s[n] = x

(***************************************************************************)
(* escape_graft: path.replace('\\', '\\\\').replace('=', '\\=')            *)
(***************************************************************************)
RECURSIVE replace(_, _, _)
replace(s, old, new) ==
    IF s = <<>> THEN <<>>
    ELSE (IF s[1] = old THEN new ELSE <<s[1]>>) \o replace(Tail(s), old, new)

escape_graft_eq_only(path) == replace(path, "=", <<"\\", "=">>)

escape_graft_eq_to_backslashes(path) ==
    replace(replace(path, "\\", <<"\\", "\\">>), "=", <<"\\", "\\">>)

escape_graft(path) ==
    replace(replace(path, "\\", <<"\\", "\\">>), "=", <<"\\", "=">>)

(***************************************************************************)
(* The graft loop of generate_iso (lines 165-173): the result is either a  *)
(* naming collision (AssertionError) or the graft list.                    *)
(***************************************************************************)
\* The escaped name and the escaped path of every entry (lines 167-168).
RECURSIVE Escaped(_, _)
Escaped(src_dir, entries) ==
    IF entries = <<>> THEN <<>>
    ELSE << [name |-> escape_graft(entries[1]),
             path |-> escape_graft(join(src_dir, entries[1]))] >>
         \o Escaped(src_dir, Tail(entries))

\* Iteration n of the loop raises when the escaped name of entry n is already
\* in grafts_seen, that is, equals the escaped name of an earlier entry; the
\* entries before the first such n have been appended.
GraftLoop(e) ==
    LET seen == {n \in 1..Len(e) : \E m \in 1..(n - 1) : e[m].name = e[n].name}
        done == IF seen = {} THEN Len(e)
                ELSE (CHOOSE n \in seen : \A m \in seen : n <= m) - 1
    IN  [collision   |-> seen # {},
         grafts_seen |-> [n \in 1..done |-> e[n].name],
         grafts      |-> [n \in 1..done |-> e[n].name \o <<"=">> \o e[n].path]]

BuildGrafts(src_dir, entries) == GraftLoop(Escaped(src_dir, entries))

(***************************************************************************)
(* The source file system the inputs name, and the command lines explored. *)
(***************************************************************************)
PathA     == <<"a">>                                    \* a plain file
PathAZip  == <<"a", ".", "z", "i", "p">>                \* a plain file
PathDir   == <<"x", "/", "a", ".", "t", "g", "z">>      \* a directory
PathSlash == <<"d", "/">>                               \* a directory, trailing slash
PathPar   == <<"n", ".", "p", "a", "r", "2">>           \* a plain file
PathLong  == Rep("b", LongLen)                          \* does not exist

InputPaths == {PathA, PathAZip, PathDir, PathSlash, PathPar, PathLong}

SrcKind(path) ==
    CASE path \in {PathA, PathAZip, PathPar} -> "file"
      [] path \in {PathDir, PathSlash}       -> "dir"
      [] OTHER                               -> "missing"

exists(path) == SrcKind(path) # "missing"
isdir(path) == SrcKind(path) = "dir"

CommandLines == UNION {[1..n -> InputPaths] : n \in 1..MaxInputs}

VolIds == {<<>>, <<"v">>, Rep("v", LongLen)}

TempDir == <<"/", "o", "/", "t">>
OutPath == <<".", "/", "o">>

(***************************************************************************)
(* File-system effects inside temp_dir.                                    *)
(***************************************************************************)
EmptyDir == [n \in {} |-> "file"]

present(fs, name) == name \in DOMAIN fs
isfile(fs, name) == name \in DOMAIN fs /\ fs[name] = "file"

\* shutil.copytree refuses an existing destination (and the empty base name
\* names temp_dir itself, "." and ".." existing directories); shutil.copy
\* overwrites a file and copies into a directory; a missing source raises.
copy_strict(fs, kind, name) ==
    IF kind = "missing" \/ name \in {<<>>, <<".">>, <<".", ".">>} \/ present(fs, name)
    THEN [ok |-> FALSE, fs |-> fs]
    ELSE [ok |-> TRUE, fs |-> (name :> kind) @@ fs]

copy(fs, kind, name) ==
    IF kind = "missing" THEN [ok |-> FALSE, fs |-> fs]
    ELSE IF kind = "dir"
    THEN IF name \in {<<>>, <<".">>, <<".", ".">>} \/ present(fs, name)
         THEN [ok |-> FALSE, fs |-> fs]
         ELSE [ok |-> TRUE, fs |-> (name :> "dir") @@ fs]
    ELSE IF present(fs, name) /\ fs[name] = "dir"
    THEN [ok |-> TRUE, fs |-> fs]
    ELSE [ok |-> TRUE, fs |-> (name :> "file") @@ fs]

\* os.rename: the source must exist; a file cannot replace a directory nor a
\* directory a file.
rename(fs, src, dest) ==
    IF ~present(fs, src) THEN [ok |-> FALSE, fs |-> fs]
    ELSE IF present(fs, dest) /\ fs[dest] # fs[src] THEN [ok |-> FALSE, fs |-> fs]
    ELSE [ok |-> TRUE,
          fs |-> [n \in (DOMAIN fs \ {src}) \cup {dest} |->
                     IF n = dest THEN fs[src] ELSE fs[n]]]

\* A command that exited zero has written its output file.
ToolOutput(fs, name) == IF present(fs, name) THEN fs ELSE (name :> "file") @@ fs

rmtree(fs) == EmptyDir

(***************************************************************************)
(* Control flow: subprocess.check_call raises on a non-zero exit code; an  *)
(* exception raised inside the try block of main runs the finally clause.  *)
(***************************************************************************)
ExitCodes == {0, 1}

call_unchecked(rc) == FALSE

check_call(rc) == rc # 0

unwind_no_finally(in_try) == "done"

unwind(in_try) == IF in_try THEN "cleanup" ELSE "done"

skip_never(path) == FALSE

skip_input(path) == ~exists(path)

par2_always(flag) == TRUE

par2_wanted(flag) == ~flag

Invocation(cmd, target, existed, rc) ==
    [cmd |-> cmd, target |-> target, existed |-> existed, rc |-> rc]

outname == basename(inpath[i])

outpath == outname

(***************************************************************************)
(* main, lines 211-247.                                                    *)
(***************************************************************************)
NoGrafts == [collision |-> FALSE, grafts_seen |-> <<>>, grafts |-> <<>>]

InitMain ==
    /\ inpath \in CommandLines
    /\ no_par2 \in BOOLEAN
    /\ volid \in VolIds
    /\ pc = "start"
    /\ i = 1
    /\ k = 1
    /\ staging = EmptyDir
    /\ temp_exists = FALSE
    /\ cmdLog = <<>>
    /\ processed = <<>>
    /\ parList = <<>>
    /\ j = 1
    /\ volume_id = <<>>
    /\ listing = <<>>
    /\ grafts = NoGrafts
    /\ failed = "none"
    /\ g_dir = <<>>
    /\ g_listing = <<>>
    /\ g_out = NoGrafts
    /\ g_pc = "idle"

\* An exception of the given kind is raised inside the try block.
Raise(kind) ==
    /\ failed' = kind
    /\ pc' = unwind(TRUE)

\* tempfile.mkdtemp, line 223 (outside the try block)
Mkdtemp ==
    /\ pc = "start"
    /\ \/ /\ temp_exists' = TRUE
          /\ pc' = "inputs"
          /\ failed' = failed
       \/ /\ temp_exists' = FALSE
          /\ pc' = unwind(FALSE)
          /\ failed' = "mkdtemp"
    /\ UNCHANGED <<inpath, no_par2, volid, i, k, staging, cmdLog, processed,
                   parList, j, volume_id, listing, grafts>>
    /\ UNCHANGED graftVars

\* lines 225-228: a nonexistent input is logged and skipped
SkipMissing ==
    /\ pc = "inputs"
    /\ i <= Len(inpath)
    /\ skip_input(inpath[i])
    /\ i' = i + 1
    /\ UNCHANGED <<inpath, no_par2, volid, pc, k, staging, temp_exists, cmdLog,
                   processed, parList, j, volume_id, listing, grafts, failed>>
    /\ UNCHANGED graftVars

\* line 230: process(path, temp_dir) is called
CallProcess ==
    /\ pc = "inputs"
    /\ i <= Len(inpath)
    /\ ~skip_input(inpath[i])
    /\ processed' = Append(processed, inpath[i])
    /\ pc' = "copy"
    /\ UNCHANGED <<inpath, no_par2, volid, i, k, staging, temp_exists, cmdLog,
                   parList, j, volume_id, listing, grafts, failed>>
    /\ UNCHANGED graftVars

\* process, lines 125-131: copy(inpath, outpath)
Copy ==
    /\ pc = "copy"
    /\ LET r == copy(staging, SrcKind(inpath[i]), outname)
       IN  IF r.ok
           THEN /\ staging' = r.fs
                /\ pc' = "archive"
                /\ k' = 1
                /\ failed' = failed
           ELSE /\ Raise("copy")
                /\ UNCHANGED <<staging, k>>
    /\ UNCHANGED <<inpath, no_par2, volid, i, temp_exists, cmdLog, processed,
                   parList, j, volume_id, listing, grafts>>
    /\ UNCHANGED graftVars

\* process, lines 133-142: the archiver of table entry k is run
Archive ==
    /\ pc = "archive"
    /\ LET archive_path == outpath \o ARCHIVERS[k].ext
       IN  \E rc \in ExitCodes :
             /\ cmdLog' = Append(cmdLog,
                    Invocation(ARCHIVERS[k].cmd, archive_path,
                               present(staging, archive_path), rc))
             /\ IF check_call(rc)
                THEN /\ Raise("tool")
                     /\ UNCHANGED <<staging, k>>
                ELSE /\ staging' = ToolOutput(staging, archive_path)
                     /\ failed' = failed
                     /\ IF k < Len(ARCHIVERS)
                        THEN k' = k + 1 /\ pc' = pc
                        ELSE k' = 1 /\ pc' = "compress_in"
    /\ UNCHANGED <<inpath, no_par2, volid, i, temp_exists, processed,
                   parList, j, volume_id, listing, grafts>>
    /\ UNCHANGED graftVars

\* process, lines 145-148: the copied input, when a plain file, is compressed
CompressInput ==
    /\ pc = "compress_in"
    /\ isfile(staging, outpath)
    /\ \E rc \in ExitCodes :
         /\ cmdLog' = Append(cmdLog,
                Invocation(COMPRESSORS[k].cmd, outpath,
                           present(staging, outpath \o COMPRESSORS[k].ext), rc))
         /\ IF check_call(rc)
            THEN /\ Raise("tool")
                 /\ UNCHANGED staging
            ELSE /\ staging' = ToolOutput(staging, outpath \o COMPRESSORS[k].ext)
                 /\ failed' = failed
                 /\ pc' = "compress_tar"
    /\ UNCHANGED <<inpath, no_par2, volid, i, k, temp_exists, processed,
                   parList, j, volume_id, listing, grafts>>
    /\ UNCHANGED graftVars

\* process, line 145 when the copied input is not a plain file
SkipCompressInput ==
    /\ pc = "compress_in"
    /\ ~isfile(staging, outpath)
    /\ pc' = "compress_tar"
    /\ UNCHANGED <<inpath, no_par2, volid, i, k, staging, temp_exists, cmdLog,
                   processed, parList, j, volume_id, listing, grafts, failed>>
    /\ UNCHANGED graftVars

\* process, lines 150-153: <outname>.tar is compressed, on every iteration
CompressTar ==
    /\ pc = "compress_tar"
    /\ LET out_tar == outname \o TarExt
       IN  \E rc \in ExitCodes :
             /\ cmdLog' = Append(cmdLog,
                    Invocation(COMPRESSORS[k].cmd, out_tar,
                               present(staging, out_tar \o COMPRESSORS[k].ext), rc))
             /\ IF check_call(rc)
                THEN /\ Raise("tool")
                     /\ UNCHANGED <<staging, k>>
                ELSE /\ staging' = ToolOutput(staging, out_tar \o COMPRESSORS[k].ext)
                     /\ failed' = failed
                     /\ IF k < Len(COMPRESSORS)
                        THEN k' = k + 1 /\ pc' = "compress_in"
                        ELSE k' = 1 /\ pc' = "rename"
    /\ UNCHANGED <<inpath, no_par2, volid, i, temp_exists, processed,
                   parList, j, volume_id, listing, grafts>>
    /\ UNCHANGED graftVars

\* process, lines 155-158: os.rename(outpath + ext_from, outpath + ext_to);
\* after the last entry process returns to the loop of main
Rename ==
    /\ pc = "rename"
    /\ LET r == rename(staging, outpath \o EXTENSION_COMPRESSION[k].from,
                                outpath \o EXTENSION_COMPRESSION[k].to)
       IN  IF r.ok
           THEN /\ staging' = r.fs
                /\ failed' = failed
                /\ IF k < Len(EXTENSION_COMPRESSION)
                   THEN k' = k + 1 /\ pc' = pc /\ i' = i
                   ELSE k' = 1 /\ pc' = "inputs" /\ i' = i + 1
           ELSE /\ Raise("rename")
                /\ UNCHANGED <<staging, k, i>>
    /\ UNCHANGED <<inpath, no_par2, volid, temp_exists, cmdLog, processed,
                   parList, j, volume_id, listing, grafts>>
    /\ UNCHANGED graftVars

\* line 232: sorted(os.listdir(temp_dir)) is evaluated once the inputs are done
StartParity ==
    /\ pc = "inputs"
    /\ i > Len(inpath)
    /\ parList' = sorted(listdir(staging))
    /\ j' = 1
    /\ pc' = "parity"
    /\ UNCHANGED <<inpath, no_par2, volid, i, k, staging, temp_exists, cmdLog,
                   processed, volume_id, listing, grafts, failed>>
    /\ UNCHANGED graftVars

\* lines 234-235: an entry ending in .par2 gets no parity file
SkipPar2 ==
    /\ pc = "parity"
    /\ j <= Len(parList)
    /\ endswith(join(TempDir, parList[j]), Par2Ext)
    /\ j' = j + 1
    /\ UNCHANGED <<inpath, no_par2, volid, pc, i, k, staging, temp_exists, cmdLog,
                   processed, parList, volume_id, listing, grafts, failed>>
    /\ UNCHANGED graftVars

\* lines 237-238 under --no-par2: nothing is run
SuppressPar2 ==
    /\ pc = "parity"
    /\ j <= Len(parList)
    /\ ~endswith(join(TempDir, parList[j]), Par2Ext)
    /\ ~par2_wanted(no_par2)
    /\ j' = j + 1
    /\ UNCHANGED <<inpath, no_par2, volid, pc, i, k, staging, temp_exists, cmdLog,
                   processed, parList, volume_id, listing, grafts, failed>>
    /\ UNCHANGED graftVars

\* line 239 and parchive, lines 101-116: par2 writes <src_path>.par2
Parchive ==
    /\ pc = "parity"
    /\ j <= Len(parList)
    /\ ~endswith(join(TempDir, parList[j]), Par2Ext)
    /\ par2_wanted(no_par2)
    /\ \E rc \in ExitCodes :
         /\ cmdLog' = Append(cmdLog,
                Invocation("par2", parList[j],
                           present(staging, parList[j] \o Par2Ext), rc))
         /\ IF check_call(rc)
            THEN /\ Raise("tool")
                 /\ UNCHANGED <<staging, j>>
            ELSE /\ staging' = ToolOutput(staging, parList[j] \o Par2Ext)
                 /\ failed' = failed
                 /\ j' = j + 1
                 /\ pc' = pc
    /\ UNCHANGED <<inpath, no_par2, volid, i, k, temp_exists, processed,
                   parList, volume_id, listing, grafts>>
    /\ UNCHANGED graftVars

\* lines 241-245: the volume id is resolved and generate_iso is called
ResolveVolid ==
    /\ pc = "parity"
    /\ j > Len(parList)
    /\ volume_id' = IF volid # <<>> THEN volid
                    ELSE Slice(basename(inpath[1]), VolIdLen)
    /\ pc' = "grafts"
    /\ UNCHANGED <<inpath, no_par2, volid, i, k, staging, temp_exists, cmdLog,
                   processed, parList, j, listing, grafts, failed>>
    /\ UNCHANGED graftVars

\* generate_iso, lines 163-173: the graft list is built, or a collision raised.
\* (os.listdir returns the entries in no particular order; the sorted order
\* stands for it here, and every order is explored by GraftsAlone.)
Grafts ==
    /\ pc = "grafts"
    /\ listing' = sorted(listdir(staging))
    /\ LET r == BuildGrafts(TempDir, listing')
       IN  IF r.collision
           THEN /\ Raise("collision")
                /\ UNCHANGED grafts
           ELSE /\ grafts' = r
                /\ pc' = "genisoimage"
                /\ failed' = failed
    /\ UNCHANGED <<inpath, no_par2, volid, i, k, staging, temp_exists, cmdLog,
                   processed, parList, j, volume_id>>
    /\ UNCHANGED graftVars

\* generate_iso, lines 175-176
Genisoimage ==
    /\ pc = "genisoimage"
    /\ \E rc \in ExitCodes :
         /\ cmdLog' = Append(cmdLog, Invocation("genisoimage", OutPath, FALSE, rc))
         /\ IF check_call(rc)
            THEN Raise("tool")
            ELSE pc' = "dvdisaster" /\ failed' = failed
    /\ UNCHANGED <<inpath, no_par2, volid, i, k, staging, temp_exists, processed,
                   parList, j, volume_id, listing, grafts>>
    /\ UNCHANGED graftVars

\* generate_iso, lines 178-180
Dvdisaster ==
    /\ pc = "dvdisaster"
    /\ \E rc \in ExitCodes :
         /\ cmdLog' = Append(cmdLog, Invocation("dvdisaster", OutPath, TRUE, rc))
         /\ IF check_call(rc)
            THEN Raise("tool")
            ELSE pc' = "cleanup" /\ failed' = failed
    /\ UNCHANGED <<inpath, no_par2, volid, i, k, staging, temp_exists, processed,
                   parList, j, volume_id, listing, grafts>>
    /\ UNCHANGED graftVars

\* lines 246-247: finally: shutil.rmtree(temp_dir); then main returns, or the
\* pending exception leaves it
Cleanup ==
    /\ pc = "cleanup"
    /\ staging' = rmtree(staging)
    /\ temp_exists' = FALSE
    /\ pc' = "done"
    /\ UNCHANGED <<inpath, no_par2, volid, i, k, cmdLog, processed,
                   parList, j, volume_id, listing, grafts, failed>>
    /\ UNCHANGED graftVars

(***************************************************************************)
(* generate_iso called on its own, on any directory: src_dir is an         *)
(* absolute path, the listing holds pairwise distinct non-empty names      *)
(* without "/", in any order; names may hold "=" and "\".                  *)
(***************************************************************************)
NameChars == {"a", "=", "\\"}

Names == UNION {[1..n -> NameChars] : n \in 1..MaxNameLen}

Listings ==
    UNION {{l \in [1..n -> Names] : \A x, y \in 1..n : l[x] = l[y] => x = y}
           : n \in 0..MaxListing}

SrcDirs == {<<"/", "t">>, <<"/", "=">>, <<"/", "t", "\\">>}

InitGraft ==
    /\ inpath = <<PathA>>
    /\ no_par2 = FALSE
    /\ volid = <<>>
    /\ pc = "idle"
    /\ i = 1
    /\ k = 1
    /\ staging = EmptyDir
    /\ temp_exists = FALSE
    /\ cmdLog = <<>>
    /\ processed = <<>>
    /\ parList = <<>>
    /\ j = 1
    /\ volume_id = <<>>
    /\ listing = <<>>
    /\ grafts = NoGrafts
    /\ failed = "none"
    /\ g_dir \in SrcDirs
    /\ g_listing \in Listings
    /\ g_out = NoGrafts
    /\ g_pc = "listed"

Init == InitMain \/ InitGraft

\* generate_iso, lines 163-173, on the directory g_dir
GraftsAlone ==
    /\ g_pc = "listed"
    /\ g_out' = BuildGrafts(g_dir, g_listing)
    /\ g_pc' = "built"
    /\ UNCHANGED <<g_dir, g_listing>>
    /\ UNCHANGED mainVars

Next ==
    \/ Mkdtemp
    \/ SkipMissing
    \/ CallProcess
    \/ Copy
    \/ Archive
    \/ CompressInput
    \/ SkipCompressInput
    \/ CompressTar
    \/ Rename
    \/ StartParity
    \/ SkipPar2
    \/ SuppressPar2
    \/ Parchive
    \/ ResolveVolid
    \/ Grafts
    \/ Genisoimage
    \/ Dvdisaster
    \/ Cleanup
    \/ GraftsAlone

Spec == Init /\ [][Next]_vars

(***************************************************************************)
(* Helpers of the properties below.                                        *)
(***************************************************************************)
Last(s) == s[Len(s)]

Count(cmd) == Cardinality({n \in 1..Len(cmdLog) : cmdLog[n].cmd = cmd})

Invoked(cmd) == \E n \in 1..Len(cmdLog) : cmdLog[n].cmd = cmd

ArchiverCmds == {ARCHIVERS[n].cmd : n \in 1..Len(ARCHIVERS)}

AllExist == \A n \in 1..Len(inpath) : exists(inpath[n])

AllZero == \A n \in 1..Len(cmdLog) : cmdLog[n].rc = 0

IsPrefix(a, b) == Len(a) <= Len(b) /\ SubSeq(b, 1, Len(a)) = a

Distinct(s) == \A m, n \in 1..Len(s) : s[m] = s[n] => m = n

InGenerateIso == pc \in {"genisoimage", "dvdisaster"}

\* C1: once the staging directory has been created, it no longer exists when
\* the run has ended, whichever way the run ended; until the finally clause
\* runs it exists.
C1_StagingRemovedAtEnd ==
    /\ pc = "done" => ~temp_exists /\ listdir(staging) = {}
    /\ pc \notin {"start", "done", "idle"} => temp_exists

\* C1 witness: a run that failed inside os.rename, after the staging directory
\* had been filled, has ended.
C1_Witness ==
    /\ pc = "done"
    /\ failed = "rename"
    /\ cmdLog # <<>>
    /\ ~temp_exists

(***************************************************************************)
(* C2.  NamesOf(path) are the names process creates in the staging         *)
(* directory for one input, the intermediate <base>.tar.<ext> included.    *)
(***************************************************************************)
NamesOf(path) ==
    LET base == basename(path)
    IN  {base}
        \cup {base \o ARCHIVERS[n].ext : n \in 1..Len(ARCHIVERS)}
        \cup {base \o COMPRESSORS[n].ext : n \in 1..Len(COMPRESSORS)}
        \cup {base \o TarExt \o COMPRESSORS[n].ext : n \in 1..Len(COMPRESSORS)}
        \cup {base \o EXTENSION_COMPRESSION[n].to : n \in 1..Len(EXTENSION_COMPRESSION)}

\* No input directory has the base name "", "." or "..", or a name that
\* process creates for another input of the command line.
NoDirectoryClash ==
    \A n \in 1..Len(inpath) :
        isdir(inpath[n]) =>
            /\ basename(inpath[n]) \notin {<<>>, <<".">>, <<".", ".">>}
            /\ \A m \in 1..Len(inpath) :
                   m # n => basename(inpath[n]) \notin NamesOf(inpath[m])

IsoBuiltOnce ==
    /\ failed = "none"
    /\ Count("genisoimage") = 1
    /\ Count("dvdisaster") = 1
    /\ Len(cmdLog) >= 2
    /\ cmdLog[Len(cmdLog) - 1] = Invocation("genisoimage", OutPath, FALSE, 0)
    /\ cmdLog[Len(cmdLog)] = Invocation("dvdisaster", OutPath, TRUE, 0)

\* C2 as stated: for every non-empty list of existing inputs, whatever their
\* base names, with every external tool exiting zero, the run that has ended
\* built the ISO: genisoimage and then dvdisaster ran once each on the output
\* path and there was no fatal error.
C2_AsStated ==
    (pc = "done" /\ failed # "mkdtemp" /\ AllExist /\ AllZero) => IsoBuiltOnce

\* C2 amended: the same, provided no input directory has the base name "", "."
\* or "..", or a name that process creates for another input.
C2_IsoBuiltWithoutClash ==
    (pc = "done" /\ failed # "mkdtemp" /\ AllExist /\ AllZero /\ NoDirectoryClash)
        => IsoBuiltOnce

\* C2 witness: a run over two existing inputs, a directory among them, has
\* ended with the ISO built.
C2_Witness ==
    /\ pc = "done"
    /\ Len(inpath) = 2
    /\ AllExist
    /\ \E n \in 1..Len(inpath) : isdir(inpath[n])
    /\ NoDirectoryClash
    /\ IsoBuiltOnce

\* C3 as stated: an archiver is invoked only when <dest><ext> is absent from
\* the staging directory at its turn.
C3_SkipIfExists ==
    \A n \in 1..Len(cmdLog) :
        cmdLog[n].cmd \in ArchiverCmds => ~cmdLog[n].existed

\* C4 as stated: the volume id passed to generate_iso is at most 32 characters
\* long, supplied or derived, and when not supplied it is the first 32
\* characters of the base name of the first input.
C4_VolumeIdAtMost32 ==
    pc \in {"grafts", "genisoimage", "dvdisaster"} =>
        /\ Len(volume_id) <= VolIdLen
        /\ volid = <<>> => volume_id = Slice(basename(inpath[1]), VolIdLen)

\* The half of C4 that holds: a derived volume id is the first 32 characters of
\* the base name of the first input, and a supplied one is passed unchanged.
VolumeIdResolved ==
    pc \in {"grafts", "genisoimage", "dvdisaster"} =>
        IF volid = <<>>
        THEN /\ volume_id = Slice(basename(inpath[1]), VolIdLen)
             /\ Len(volume_id) <= VolIdLen
        ELSE volume_id = volid

(***************************************************************************)
(* C5.                                                                     *)
(***************************************************************************)
Existing(paths) == SelectSeq(paths, exists)

\* The inputs the loop of line 225 has dealt with or is dealing with.
InputsReached ==
    IF pc \in {"start", "idle"} THEN 0
    ELSE IF pc = "inputs" THEN i - 1
    ELSE IF i > Len(inpath) THEN Len(inpath)
    ELSE i

SkippedWithoutAbort ==
    (pc = "inputs" /\ i <= Len(inpath) /\ ~exists(inpath[i])) =>
        /\ pc' = "inputs"
        /\ i' = i + 1
        /\ failed' = failed
        /\ processed' = processed
        /\ staging' = staging
        /\ cmdLog' = cmdLog

\* C5: process is called exactly for the inputs that exist, in command-line
\* order, never for a nonexistent one; skipping a nonexistent input changes
\* nothing but the loop index and raises nothing; a run that ends without a
\* fatal error has been through every existing input and through ISO
\* generation; every staged entry derives from an existing input.
C5_MissingInputSkipped ==
    /\ [](/\ \A n \in 1..Len(processed) : exists(processed[n])
          /\ pc \notin {"cleanup", "done"} =>
                 processed = Existing(SubSeq(inpath, 1, InputsReached))
          /\ IsPrefix(processed, Existing(inpath))
          /\ (pc = "done" /\ failed = "none") =>
                 /\ processed = Existing(inpath)
                 /\ Invoked("genisoimage")
          /\ \A name \in listdir(staging) :
                 \E n \in 1..Len(inpath) :
                     exists(inpath[n]) /\ IsPrefix(basename(inpath[n]), name))
    /\ [][SkippedWithoutAbort]_vars

\* C5 witness: a run with a nonexistent first input and an existing second one
\* has ended without a fatal error, through par2 and ISO generation.
C5_Witness ==
    /\ pc = "done"
    /\ failed = "none"
    /\ Len(inpath) = 2
    /\ ~exists(inpath[1])
    /\ processed = <<inpath[2]>>
    /\ Invoked("par2")
    /\ Invoked("genisoimage")
    /\ Invoked("dvdisaster")

(***************************************************************************)
(* C6.                                                                     *)
(***************************************************************************)
Par2Entries == {name \in listdir(staging) : endswith(name, Par2Ext)}

\* C6 as stated: under --no-par2 the staging directory holds no entry ending
\* in .par2 when generate_iso is invoked.
C6_AsStated ==
    (no_par2 /\ pc = "grafts") => Par2Entries = {}

\* C6 amended: under --no-par2 par2 is never run, and when generate_iso is
\* invoked the only entries ending in .par2 are the copies of existing inputs
\* whose own base name ends in .par2.
C6_NoPar2Generated ==
    no_par2 =>
        /\ ~Invoked("par2")
        /\ pc = "grafts" =>
               \A name \in Par2Entries :
                   \E n \in 1..Len(inpath) :
                       exists(inpath[n]) /\ basename(inpath[n]) = name

\* C6 witness: under --no-par2 generate_iso is about to be invoked on a staging
\* directory that holds the artifacts of two inputs, one of them named *.par2.
C6_Witness ==
    /\ no_par2
    /\ pc = "grafts"
    /\ Len(processed) = 2
    /\ Par2Entries # {}
    /\ Par2Entries # listdir(staging)

(***************************************************************************)
(* C9.                                                                     *)
(***************************************************************************)
\* C9: no external command is invoked after one that exited non-zero; after a
\* non-zero exit the run only removes the staging directory and ends in
\* failure.
C9_NothingAfterFailure ==
    /\ \A n \in 1..(Len(cmdLog) - 1) : cmdLog[n].rc = 0
    /\ (cmdLog # <<>> /\ Last(cmdLog).rc # 0) =>
           /\ pc \in {"cleanup", "done"}
           /\ failed = "tool"
           /\ pc = "done" => ~temp_exists

\* C9 witness: genisoimage exited non-zero and the run has ended in failure
\* without dvdisaster.
C9_Witness ==
    /\ pc = "done"
    /\ cmdLog # <<>>
    /\ Last(cmdLog).cmd = "genisoimage"
    /\ Last(cmdLog).rc # 0
    /\ failed = "tool"
    /\ ~Invoked("dvdisaster")

(***************************************************************************)
(* C8.  Reading a graft string back: the separator is the first "=" that   *)
(* no backslash escapes; "\\" stands for "\" and "\=" for "=".             *)
(***************************************************************************)
RECURSIVE Separator(_, _)
Separator(g, n) ==
    IF n > Len(g) THEN 0
    ELSE IF g[n] = "\\" THEN Separator(g, n + 2)
    ELSE IF g[n] = "=" THEN n
    ELSE Separator(g, n + 1)

RECURSIVE Unescape(_)
Unescape(s) ==
    IF s = <<>> THEN <<>>
    ELSE IF s[1] = "\\" /\ Len(s) >= 2 /\ s[2] \in {"\\", "="}
    THEN <<s[2]>> \o Unescape(SubSeq(s, 3, Len(s)))
    ELSE <<s[1]>> \o Unescape(Tail(s))

RoundTrips(graft, name, path) ==
    LET sep == Separator(graft, 1)
    IN  /\ sep > 0
        /\ sep = Len(escape_graft(name)) + 1
        /\ Unescape(SubSeq(graft, 1, sep - 1)) = name
        /\ Unescape(SubSeq(graft, sep + 1, Len(graft))) = path

\* C8: in every graft string escape_graft(name) + "=" + escape_graft(path) that
\* generate_iso builds, the first unescaped "=" is the separator, and undoing
\* the escaping on both sides gives back the name and the path.
C8_EscapeGraftRoundTrips ==
    /\ g_pc = "built" =>
           \A n \in 1..Len(g_out.grafts) :
               RoundTrips(g_out.grafts[n], g_listing[n], join(g_dir, g_listing[n]))
    /\ InGenerateIso =>
           \A n \in 1..Len(grafts.grafts) :
               RoundTrips(grafts.grafts[n], listing[n], join(TempDir, listing[n]))

\* C8 witness: generate_iso has built the grafts of a directory whose path
\* holds a backslash, for an entry named "=\" and an entry named "\=".
C8_Witness ==
    /\ g_pc = "built"
    /\ g_dir = <<"/", "t", "\\">>
    /\ g_listing = << <<"=", "\\">>, <<"\\", "=">> >>
    /\ Len(g_out.grafts) = 2

(***************************************************************************)
(* C10.                                                                    *)
(***************************************************************************)
OneGraftPerEntry(result, entries) ==
    /\ ~result.collision
    /\ Len(result.grafts) = Len(entries)
    /\ Len(result.grafts_seen) = Len(entries)
    /\ Distinct(result.grafts_seen)
    /\ \A n \in 1..Len(entries) : result.grafts_seen[n] = escape_graft(entries[n])

\* C10: escape_graft maps different names to different strings, so for every
\* directory listing (pairwise distinct names) generate_iso raises no naming
\* collision and builds exactly one graft, with a unique name, per entry.
C10_NoCollision ==
    /\ failed # "collision"
    /\ InGenerateIso =>
           /\ Len(listing) = Cardinality(listdir(staging))
           /\ \A n \in 1..Len(listing) : listing[n] \in listdir(staging)
           /\ Distinct(listing)
           /\ OneGraftPerEntry(grafts, listing)
    /\ g_pc = "built" =>
           /\ \A m, n \in 1..Len(g_listing) :
                  escape_graft(g_listing[m]) = escape_graft(g_listing[n]) => m = n
           /\ OneGraftPerEntry(g_out, g_listing)

\* C10 witness: generate_iso has built two grafts for the entries "=" and "\".
C10_Witness ==
    /\ g_pc = "built"
    /\ g_listing = << <<"=">>, <<"\\">> >>
    /\ ~g_out.collision
    /\ Len(g_out.grafts) = 2

(***************************************************************************)
(* C7.                                                                     *)
(***************************************************************************)
\* C7: when two entries of the staging directory escape to the same graft
\* name, the collision is raised before genisoimage or dvdisaster is invoked.
\* No reachable state satisfies the premise (C10_NoCollision), so this formula
\* holds of every behaviour without the guard of lines 170-171 ever deciding.
C7_CollisionBeforeGenisoimage ==
    /\ failed = "collision" => ~Invoked("genisoimage") /\ ~Invoked("dvdisaster")
    /\ g_out.collision => Len(g_out.grafts) < Len(g_listing)

====
